---- MODULE Spec2Model ----
(***************************************************************************)
(* Model of the Color-separator image pipeline (services/imageProcessor,   *)
(* listed in src/types.ts from line 37 on) and of the App component that   *)
(* drives it (src/App.tsx).                                                *)
(*                                                                         *)
(* Numbers.  The code computes in IEEE doubles and stores samples into     *)
(* Uint8ClampedArray (clamp to [0,255], round half to even).  The model    *)
(* computes the same expressions in exact rational arithmetic ([n, d]      *)
(* records, d > 0, in lowest terms) and applies the same store rounding.   *)
(* TLC integers are 32 bit and an overflow stops the run, so the input     *)
(* sets below are chosen to keep every intermediate value in range.        *)
(*                                                                         *)
(* Buffers.  An RGBA buffer (ImageData.data) is a sequence of pixel        *)
(* records [r, g, b, a]; pixel p of the model is bytes 4(p-1)..4(p-1)+3 of *)
(* the flat array, so the code's index i is 4(p-1) and pixel (0,0) is      *)
(* element 1.  A hex colour "#rrggbb" is the sequence of its six hex       *)
(* digits, each 0..15.                                                     *)
(***************************************************************************)
EXTENDS Integers, Sequences, FiniteSets, TLC

VARIABLES
    \* ---- one call of the pipeline (pure functions) ----
    img,          \* the decoded source image [width, height, data]
    adj,          \* the ImageAdjustments of the call
    userMask,     \* the mask canvas passed to the call, or NoMask
    spots,        \* the SpotColor[] passed to processSpotColors
    call,         \* which function has been applied ("none" before)
    processed,    \* ImageData of the canvas applyAttributes returned
    densities,    \* the density buffers the separator filled, in order
    returned,     \* the ChannelResult[] the separator returned
    count,        \* the count passed to extractDominantColors
    dominant      \* the hex colours extractDominantColors resolved with

pureVars == <<img, adj, userMask, spots, call, processed, densities, returned,
              count, dominant>>

VARIABLES
    \* ---- the App component ----
    step,              \* 1 upload, 2 configure, 3 results
    originalImageSrc,  \* the uploaded file's data URL, or "null"
    results,           \* ChannelResult[] shown at step 3
    isProcessing,
    mode,              \* SeparationMode
    spotColors,
    includeWhiteBase,
    adjustments,
    isMaskingMode,
    maskCanvas,        \* the canvas element behind maskCanvasRef.current
    readerPending,     \* files whose FileReader has not fired onload yet
    maskInitPending,   \* sources whose loadImage of the mask effect is pending
    run,               \* the handleProcess invocation in flight
    delivered,         \* what the last successful run was started with
    edits,             \* number of handleAddColor / handleRemoveColor calls
    suggestedColors,   \* the hex colours offered as spot targets
    extractPending     \* sources whose extractDominantColors has not resolved

sugVars == <<suggestedColors, extractPending>>

appVars == <<step, originalImageSrc, results, isProcessing, mode, spotColors,
             includeWhiteBase, adjustments, isMaskingMode, maskCanvas,
             readerPending, maskInitPending, run, delivered, edits, sugVars>>

vars == <<pureVars, appVars>>

-----------------------------------------------------------------------------
(* Bounds of the model *)

\* an image or a mask has at most this many pixels (width * height)
MaxPixels == 2

\* processSpotColors is called with at most this many targets
MaxTargets == 2

\* extractDominantColors reads at most this many samples
MaxSamples == 3

\* the configuration (adjustments, mode, white base, spot list) is edited at
\* most this many times
MaxEdits == 2

\* configuration edits in a session checked for liveness
MaxLiveEdits == 1

-----------------------------------------------------------------------------
(* Arithmetic helpers *)

Abs(x) == IF x < 0 THEN -x ELSE x

Max2(x, y) == IF x >= y THEN x ELSE y

Max3(x, y, z) == Max2(x, Max2(y, z))

RECURSIVE Gcd(_, _)
Gcd(x, y) == IF y = 0 THEN x ELSE Gcd(y, x % y)

Lcm(x, y) == (x \div Gcd(x, y)) * y

\* the rational n/d (d > 0) in lowest terms
Rat(n, d) == LET g == Gcd(Abs(n), d) IN [n |-> n \div g, d |-> d \div g]

RAdd(x, y) == Rat(x.n * y.d + y.n * x.d, x.d * y.d)

RSub(x, y) == Rat(x.n * y.d - y.n * x.d, x.d * y.d)

\* the product, reduced crosswise before multiplying
RMul(x, y) ==
    LET g1 == Gcd(Abs(x.n), y.d)
        g2 == Gcd(Abs(y.n), x.d)
    IN  Rat((x.n \div g1) * (y.n \div g2), (x.d \div g2) * (y.d \div g1))

\* x / y for y > 0
RDiv(x, y) == Rat(x.n * y.d, x.d * y.n)

RLess(x, y) == x.n * y.d < y.n * x.d

RMax(x, y) == IF RLess(x, y) THEN y ELSE x

\* Math.max(0, Math.min(255, x)) on a rational
Clamp255(x) ==
    IF x.n < 0 THEN Rat(0, 1)
    ELSE IF x.n > 255 * x.d THEN Rat(255, 1)
    ELSE x

\* the store into a Uint8ClampedArray: clamp, then round half to even
ToUint8Clamped(x) ==
    LET c == Clamp255(x)
        q == c.n \div c.d
        rem == c.n % c.d
    IN  IF 2 * rem < c.d THEN q
        ELSE IF 2 * rem > c.d THEN q + 1
        ELSE IF q % 2 = 0 THEN q ELSE q + 1

\* parseInt(hex.slice(k, k + 2), 16) for k = 1, 3, 5: two hex digits
ParseHexByte(hex, k) == 16 * hex[k] + hex[k + 1]

\* Two-word naturals [hi, lo] = hi * 2^20 + lo, for squares that exceed 32 bits
WBase == 1024 * 1024

WNat(x) == [hi |-> x \div WBase, lo |-> x % WBase]

WAdd(x, y) ==
    LET s == x.lo + y.lo
    IN  [hi |-> x.hi + y.hi + (s \div WBase), lo |-> s % WBase]

WLeq(x, y) == x.hi < y.hi \/ (x.hi = y.hi /\ x.lo <= y.lo)

\* x * x for 0 <= x < 2^25
WSquare(x) ==
    LET x1 == x \div 1024
        x0 == x % 1024
        mid == 2 * x1 * x0
        low == x0 * x0 + (mid % 1024) * 1024
    IN  [hi |-> x1 * x1 + (mid \div 1024) + (low \div WBase), lo |-> low % WBase]

-----------------------------------------------------------------------------
(* applyAttributes *)

NoMask == [width |-> 0, height |-> 0, data |-> <<>>, present |-> FALSE]

\* const contrastFactor = (259 * (adj.contrast + 255)) / (255 * (259 - adj.contrast))
ContrastFactor(a) == Rat(259 * (a.contrast + 255), 255 * (259 - a.contrast))

\* 255 * Math.pow(x / 255, 1 / gamma), gamma given in tenths; the model covers
\* the gammas whose reciprocal is the integer exponent 2 (gamma 0.5)
GammaCurve(x, gamma) ==
    IF gamma = 5 THEN Rat(x.n * x.n, 255 * x.d * x.d)
    ELSE x

\* variant: the contrast step re-centres on 127 instead of 128
AdjustSample_Pivot127(c, a) ==
    LET f == ContrastFactor(a)
        bright == c + a.brightness
        contr == Rat(f.n * (bright - 128) + 127 * f.d, f.d)
        gam == IF a.gamma # 10 THEN GammaCurve(Clamp255(contr), a.gamma) ELSE contr
    IN  Clamp255(gam)

\* variant: the brightness result is clamped before the contrast step
AdjustSample_PerStage(c, a) ==
    LET f == ContrastFactor(a)
        bright == Clamp255(Rat(c + a.brightness, 1))
        contr == RAdd(RMul(f, RSub(bright, Rat(128, 1))), Rat(128, 1))
        gam == IF a.gamma # 10 THEN GammaCurve(Clamp255(contr), a.gamma) ELSE contr
    IN  Clamp255(gam)

\* steps 1-3 and the clamp for one colour sample c of the source
AdjustSample(c, a) ==
    LET f == ContrastFactor(a)
        bright == c + a.brightness
        contr == Rat(f.n * (bright - 128) + 128 * f.d, f.d)
        gam == IF a.gamma # 10 THEN GammaCurve(Clamp255(contr), a.gamma) ELSE contr
    IN  Clamp255(gam)

\* variant: the mask is used whenever it has as many pixels as the image
MaskData_CountOnly(image, mask) ==
    IF mask.present /\ mask.width * mask.height = image.width * image.height
    THEN mask.data
    ELSE <<>>

\* the mask's ImageData if it is usable, else null (<<>>)
MaskData(image, mask) ==
    IF mask.present /\ mask.width = image.width /\ mask.height = image.height
    THEN mask.data
    ELSE <<>>

\* the target background colour, as <<R, G, B>>
TargetColor(image, a) ==
    IF ~a.removeBg THEN <<255, 255, 255>>
    ELSE IF a.bgRemoveMode = "black" THEN <<0, 0, 0>>
    ELSE IF a.bgRemoveMode = "custom"
         THEN <<ParseHexByte(a.customBgColor, 1), ParseHexByte(a.customBgColor, 3),
                ParseHexByte(a.customBgColor, 5)>>
    ELSE IF a.bgRemoveMode = "auto"
         THEN <<image.data[1].r, image.data[1].g, image.data[1].b>>
    ELSE <<255, 255, 255>>

\* variant: a luminance equal to the cutoff erases too
LumaAboveCutoff_Inclusive(r, g, b, a) ==
    LET L == Lcm(r.d, Lcm(g.d, b.d))
        lum1000 == 299 * r.n * (L \div r.d) + 587 * g.n * (L \div g.d)
                     + 114 * b.n * (L \div b.d)
    IN  2 * lum1000 >= (510 - 5 * a.bgThreshold) * 1000 * L

\* luminance > cutoff, with luminance = 0.299 r + 0.587 g + 0.114 b and
\* cutoff = 255 - bgThreshold * 2.5
LumaAboveCutoff(r, g, b, a) ==
    LET L == Lcm(r.d, Lcm(g.d, b.d))
        lum1000 == 299 * r.n * (L \div r.d) + 587 * g.n * (L \div g.d)
                     + 114 * b.n * (L \div b.d)
    IN  2 * lum1000 > (510 - 5 * a.bgThreshold) * 1000 * L

\* variant: a distance equal to the tolerance does not erase
WithinTolerance_Strict(r, g, b, target, a) ==
    LET L == Lcm(r.d, Lcm(g.d, b.d))
        dr == Abs(r.n * (L \div r.d) - target[1] * L)
        dg == Abs(g.n * (L \div g.d) - target[2] * L)
        db == Abs(b.n * (L \div b.d) - target[3] * L)
        distSq == WAdd(WSquare(dr), WAdd(WSquare(dg), WSquare(db)))
        tol50 == 221 * a.bgThreshold * L
        q == tol50 \div 50
        t == tol50 % 50
        u == 4 * q * t
        frac == (u \div 100) + (((u % 100) * 25 + t * t) \div 2500)
        toleranceSq == WAdd(WSquare(q), WNat(frac))
    IN  WLeq(distSq, toleranceSq) /\ distSq # toleranceSq

\* distSq <= toleranceSq, with tolerance = (bgThreshold / 100) * 442
WithinTolerance(r, g, b, target, a) ==
    LET L == Lcm(r.d, Lcm(g.d, b.d))
        dr == Abs(r.n * (L \div r.d) - target[1] * L)
        dg == Abs(g.n * (L \div g.d) - target[2] * L)
        db == Abs(b.n * (L \div b.d) - target[3] * L)
        distSq == WAdd(WSquare(dr), WAdd(WSquare(dg), WSquare(db)))
        \* floor((221 * thr * L / 50)^2), with 221 * thr * L = 50 q + t
        tol50 == 221 * a.bgThreshold * L
        q == tol50 \div 50
        t == tol50 % 50
        u == 4 * q * t
        frac == (u \div 100) + (((u % 100) * 25 + t * t) \div 2500)
        toleranceSq == WAdd(WSquare(q), WNat(frac))
    IN  WLeq(distSq, toleranceSq)

\* the automatic removal logic (the last branch of step 4)
AutoRemovedAlpha(px, r, g, b, target, a) ==
    IF a.removeBg
    THEN IF a.bgRemoveMode = "white"
         THEN IF LumaAboveCutoff(r, g, b, a) THEN 0 ELSE px.a
         ELSE IF WithinTolerance(r, g, b, target, a) THEN 0 ELSE px.a
    ELSE px.a

\* variant: the keep test comes before the erase test
MaskedAlpha_KeepFirst(px, r, g, b, m, target, a) ==
    IF m # <<>> /\ m[2] > 10 THEN px.a
    ELSE IF m # <<>> /\ m[1] > 10 THEN 0
    ELSE AutoRemovedAlpha(px, r, g, b, target, a)

\* variant: keep restores the pixel to fully opaque
MaskedAlpha_KeepOpaque(px, r, g, b, m, target, a) ==
    IF m # <<>> /\ m[1] > 10 THEN 0
    ELSE IF m # <<>> /\ m[2] > 10 THEN 255
    ELSE AutoRemovedAlpha(px, r, g, b, target, a)

\* variant: the keep mark does not stop the automatic removal
MaskedAlpha_NoKeep(px, r, g, b, m, target, a) ==
    IF m # <<>> /\ m[1] > 10 THEN 0
    ELSE AutoRemovedAlpha(px, r, g, b, target, a)

\* the alpha the loop body writes for a pixel (step 4): the mask first
MaskedAlpha(px, r, g, b, m, target, a) ==
    LET forceRemove == m # <<>> /\ m[1] > 10
        forceKeep == m # <<>> /\ m[2] > 10
    IN  IF forceRemove THEN 0
        ELSE IF forceKeep THEN px.a
        ELSE AutoRemovedAlpha(px, r, g, b, target, a)

\* variant: an erased pixel loses its colour as well
ProcessPixel_ClearErased(px, m, target, a) ==
    LET r == AdjustSample(px.r, a)
        g == AdjustSample(px.g, a)
        b == AdjustSample(px.b, a)
        alpha == MaskedAlpha(px, r, g, b, m, target, a)
    IN  IF alpha = 0
        THEN [r |-> 0, g |-> 0, b |-> 0, a |-> 0]
        ELSE [r |-> ToUint8Clamped(r), g |-> ToUint8Clamped(g),
              b |-> ToUint8Clamped(b), a |-> alpha]

\* one iteration of the pixel loop: the four samples written back for pixel p
\* (m is the mask pixel <<R, G>>, or <<>> when there is no mask data)
ProcessPixel(px, m, target, a) ==
    LET r == AdjustSample(px.r, a)
        g == AdjustSample(px.g, a)
        b == AdjustSample(px.b, a)
    IN  [r |-> ToUint8Clamped(r), g |-> ToUint8Clamped(g), b |-> ToUint8Clamped(b),
         a |-> MaskedAlpha(px, r, g, b, m, target, a)]

\* the ImageData applyAttributes puts on the canvas it returns
applyAttributes(image, a, mask) ==
    LET maskData == MaskData(image, mask)
        target == TargetColor(image, a)
    IN  [p \in 1..Len(image.data) |->
            ProcessPixel(image.data[p],
                         IF maskData = <<>> THEN <<>> ELSE maskData[p],
                         target, a)]

-----------------------------------------------------------------------------
(* createChannelImage and the channel separators *)

\* variant: the channel is drawn in its representative colour
createChannelImage_Tinted(width, height, densityData, colorHex) ==
    [i \in 1..Len(densityData) |->
        [r |-> ParseHexByte(colorHex, 1), g |-> ParseHexByte(colorHex, 3),
         b |-> ParseHexByte(colorHex, 5), a |-> densityData[i]]]

\* the RGBA raster createChannelImage encodes (the PNG is lossless, so the
\* data URL is modelled by the raster it holds); colorHex is not used
createChannelImage(width, height, densityData, colorHex) ==
    [i \in 1..Len(densityData) |-> [r |-> 0, g |-> 0, b |-> 0, a |-> densityData[i]]]

ChannelResult(name, colorHex, width, height, densityData) ==
    [name |-> name, colorHex |-> colorHex,
     dataUrl |-> createChannelImage(width, height, densityData, colorHex)]

\* variant: the 0/0 case falls back to full ink (|| 1)
CMYKPixel_FallbackOne(px) ==
    LET one == Rat(1, 1)
        alpha == Rat(px.a, 255)
        r == Rat(px.r, 255)
        g == Rat(px.g, 255)
        b == Rat(px.b, 255)
        k == RSub(one, RMax(r, RMax(g, b)))
        Ink(v) == IF RSub(one, k).n = 0 THEN Rat(1, 1)
                  ELSE RDiv(RSub(RSub(one, v), k), RSub(one, k))
        Store(v) == ToUint8Clamped(RMul(RMul(v, Rat(255, 1)), alpha))
    IN  IF px.a = 0 THEN <<0, 0, 0, 0>>
        ELSE <<Store(Ink(r)), Store(Ink(g)), Store(Ink(b)), Store(k)>>

\* variant: the densities are not scaled by alpha
CMYKPixel_NoAlpha(px) ==
    LET one == Rat(1, 1)
        r == Rat(px.r, 255)
        g == Rat(px.g, 255)
        b == Rat(px.b, 255)
        k == RSub(one, RMax(r, RMax(g, b)))
        Ink(v) == IF RSub(one, k).n = 0 THEN Rat(0, 1)
                  ELSE RDiv(RSub(RSub(one, v), k), RSub(one, k))
        Store(v) == ToUint8Clamped(RMul(v, Rat(255, 1)))
    IN  IF px.a = 0 THEN <<0, 0, 0, 0>>
        ELSE <<Store(Ink(r)), Store(Ink(g)), Store(Ink(b)), Store(k)>>

\* the loop body of processCMYK: <<c, m, y, k>> stored for one pixel of px
CMYKPixel(px) ==
    LET one == Rat(1, 1)
        alpha == Rat(px.a, 255)
        r == Rat(px.r, 255)
        g == Rat(px.g, 255)
        b == Rat(px.b, 255)
        k == RSub(one, RMax(r, RMax(g, b)))
        \* (1 - v - k) / (1 - k) || 0 : 0/0 is NaN, which || turns into 0
        Ink(v) == IF RSub(one, k).n = 0 THEN Rat(0, 1)
                  ELSE RDiv(RSub(RSub(one, v), k), RSub(one, k))
        Store(v) == ToUint8Clamped(RMul(RMul(v, Rat(255, 1)), alpha))
    IN  IF px.a = 0 THEN <<0, 0, 0, 0>>
        ELSE <<Store(Ink(r)), Store(Ink(g)), Store(Ink(b)), Store(k)>>

\* cArr, mArr, yArr, kArr
CMYKDensities(px) == [ch \in 1..4 |-> [p \in 1..Len(px) |-> CMYKPixel(px[p])[ch]]]

\* the four ChannelResults processCMYK returns for the processed buffer px
CMYKResults(width, height, px) ==
    LET d == CMYKDensities(px)
    IN  <<ChannelResult("Cyan", <<0, 0, 15, 15, 15, 15>>, width, height, d[1]),
          ChannelResult("Magenta", <<15, 15, 0, 0, 15, 15>>, width, height, d[2]),
          ChannelResult("Yellow", <<15, 15, 15, 15, 0, 0>>, width, height, d[3]),
          ChannelResult("Key (Black)", <<0, 0, 0, 0, 0, 0>>, width, height, d[4])>>

\* targets = spotColors.map(...): the parsed r, g, b of a target
TargetRGB(sc) ==
    <<ParseHexByte(sc.color, 1), ParseHexByte(sc.color, 3), ParseHexByte(sc.color, 5)>>

\* the sum under Math.sqrt for a pixel and a target
SpotDistSq(px, sc) ==
    LET t == TargetRGB(sc)
    IN  (t[1] - px.r) * (t[1] - px.r) + (t[2] - px.g) * (t[2] - px.g)
          + (t[3] - px.b) * (t[3] - px.b)

\* the model computes Math.sqrt where the root is an integer
HasIntegerRoot(s) == \E x \in 0..442 : x * x = s

Sqrt(s) == CHOOSE x \in 0..442 : x * x = s

\* dist >= maxDist / sensitivity, where the similarity is cut off at 0:
\* dist * (20 + threshold) >= 8840, decided on the squares
BeyondRange(s, threshold) ==
    LET k == (20 + threshold) * (20 + threshold)
    IN  s >= ((8840 * 8840) + k - 1) \div k

\* variant: the sensitivity scales the result, (1 - dist / maxDist) / sensitivity
Similarity_Scaled(px, sc) ==
    IF ~HasIntegerRoot(SpotDistSq(px, sc)) THEN Rat(0, 1)
    ELSE
    LET dist == Rat(Sqrt(SpotDistSq(px, sc)), 1)
        maxDist == Rat(442, 1)
        sensitivity == RAdd(Rat(1, 1), Rat(sc.threshold, 20))
        similarity == RDiv(RSub(Rat(1, 1), RDiv(dist, maxDist)), sensitivity)
    IN  IF similarity.n < 0 THEN Rat(0, 1) ELSE similarity

\* variant: the sensitivity widens the range, 1 - dist / (maxDist * sensitivity)
Similarity_Widening(px, sc) ==
    IF ~HasIntegerRoot(SpotDistSq(px, sc)) THEN Rat(0, 1)
    ELSE
    LET dist == Rat(Sqrt(SpotDistSq(px, sc)), 1)
        maxDist == Rat(442, 1)
        sensitivity == RAdd(Rat(1, 1), Rat(sc.threshold, 20))
        similarity == RSub(Rat(1, 1), RDiv(dist, RMul(maxDist, sensitivity)))
    IN  IF similarity.n < 0 THEN Rat(0, 1) ELSE similarity

\* similarity before the cube: 1 - dist / (maxDist / sensitivity), at least 0
Similarity(px, sc) ==
    IF BeyondRange(SpotDistSq(px, sc), sc.threshold) THEN Rat(0, 1)
    ELSE
    LET dist == Rat(Sqrt(SpotDistSq(px, sc)), 1)
        maxDist == Rat(442, 1)
        sensitivity == RAdd(Rat(1, 1), Rat(sc.threshold, 20))
        similarity == RSub(Rat(1, 1), RDiv(dist, RDiv(maxDist, sensitivity)))
    IN  IF similarity.n < 0 THEN Rat(0, 1) ELSE similarity

\* the density processSpotColors stores for one pixel and one target
\* variant: the density is not scaled by the pixel's alpha
SpotPixel_NoAlpha(px, sc) ==
    LET similarity == Similarity(px, sc)
        cubed == RMul(similarity, RMul(similarity, similarity))
    IN  IF px.a = 0 THEN 0
        ELSE ToUint8Clamped(RMul(cubed, Rat(255, 1)))

SpotPixel(px, sc) ==
    LET alpha == Rat(px.a, 255)
        similarity == Similarity(px, sc)
        cubed == RMul(similarity, RMul(similarity, similarity))
    IN  IF px.a = 0 THEN 0
        ELSE ToUint8Clamped(RMul(RMul(cubed, Rat(255, 1)), alpha))

\* variant: a pixel registers only in the channels of the targets it is most
\* similar to
SpotDensities_Exclusive(px, colors) ==
    [t \in 1..Len(colors) |->
        [p \in 1..Len(px) |->
            IF \A u \in 1..Len(colors) :
                   SpotPixel(px[p], colors[u]) <= SpotPixel(px[p], colors[t])
            THEN SpotPixel(px[p], colors[t]) ELSE 0]]

\* channels: one density buffer per target
SpotDensities(px, colors) ==
    [t \in 1..Len(colors) |-> [p \in 1..Len(px) |-> SpotPixel(px[p], colors[t])]]

SpotResults(width, height, px, colors) ==
    LET d == SpotDensities(px, colors)
    IN  [t \in 1..Len(colors) |->
            ChannelResult(colors[t].name, colors[t].color, width, height, d[t])]

\* variant: the image counts as transparent only when every pixel is
HasTransparency_EveryPixel(px) == \A p \in 1..Len(px) : px[p].a < 250

\* the scan before the main loop of processWhiteBase
HasTransparency(px) == \E p \in 1..Len(px) : px[p].a < 250

\* variant: alpha or inverted luminance is chosen pixel by pixel
WhiteBaseDensity_PerPixel(px) ==
    [p \in 1..Len(px) |->
        IF px[p].a < 250 THEN px[p].a
        ELSE ToUint8Clamped(Rat(255000 - (299 * px[p].r + 587 * px[p].g
                                          + 114 * px[p].b), 1000))]

\* baseArr
WhiteBaseDensity(px) ==
    LET hasTransparency == HasTransparency(px)
    IN  [p \in 1..Len(px) |->
            IF hasTransparency THEN px[p].a
            ELSE ToUint8Clamped(Rat(255000 - (299 * px[p].r + 587 * px[p].g
                                              + 114 * px[p].b), 1000))]

WhiteBaseResult(width, height, px) ==
    ChannelResult("White Underbase", <<14, 2, 14, 8, 15, 0>>, width, height,
                  WhiteBaseDensity(px))

-----------------------------------------------------------------------------
(* getColorDistance and extractDominantColors *)

\* const minDistance
minDistance == 60

\* Math.round(v / step) * step with step = 24, then Math.min(255, Math.max(0, q))
Quantize(v) ==
    LET q == ((2 * v + 24) \div 48) * 24
    IN  IF q > 255 THEN 255 ELSE q

\* ((1 << 24) + (fR << 16) + (fG << 8) + fB).toString(16).slice(1)
ToHex(r, g, b) ==
    LET v == r * 65536 + g * 256 + b
    IN  [k \in 1..6 |-> (v \div (16 ^ (6 - k))) % 16]

\* the histogram key of a sample
QuantizedHex(px) == ToHex(Quantize(px.r), Quantize(px.g), Quantize(px.b))

\* the sum under Math.sqrt in getColorDistance
ColorDistSq(hex1, hex2) ==
    LET dr == ParseHexByte(hex1, 1) - ParseHexByte(hex2, 1)
        dg == ParseHexByte(hex1, 3) - ParseHexByte(hex2, 3)
        db == ParseHexByte(hex1, 5) - ParseHexByte(hex2, 5)
    IN  dr * dr + dg * dg + db * db

\* variant: the distinctness test is off
TooClose_Never(existing, color) == ColorDistSq(existing, color) < 0

\* getColorDistance(existing, color) < minDistance, decided on the squares
TooClose(existing, color) == ColorDistSq(existing, color) < minDistance * minDistance

\* the samples that are counted: a < 128 is skipped
Counted(data) == {p \in 1..Len(data) : data[p].a >= 128}

\* colorCounts[hex]
ColorCount(data, hex) == Cardinality({p \in Counted(data) : QuantizedHex(data[p]) = hex})

\* the position at which a key entered colorCounts
FirstSeen(data, hex) ==
    CHOOSE p \in Counted(data) :
        /\ QuantizedHex(data[p]) = hex
        /\ \A q \in Counted(data) : QuantizedHex(data[q]) = hex => p <= q

\* variant: the least frequent colour comes first
sortedColors_Ascending(data) ==
    LET keys == {QuantizedHex(data[p]) : p \in Counted(data)}
        Before(h1, h2) ==
            \/ ColorCount(data, h1) < ColorCount(data, h2)
            \/ /\ ColorCount(data, h1) = ColorCount(data, h2)
               /\ FirstSeen(data, h1) < FirstSeen(data, h2)
        Rank(h) == Cardinality({h2 \in keys : Before(h2, h)})
    IN  [i \in 1..Cardinality(keys) |-> CHOOSE h \in keys : Rank(h) = i - 1]

\* Object.entries(colorCounts).sort((a, b) => b[1] - a[1]).map(([hex]) => hex):
\* by descending count, keys of equal count in insertion order (a stable sort)
sortedColors(data) ==
    LET keys == {QuantizedHex(data[p]) : p \in Counted(data)}
        Before(h1, h2) ==
            \/ ColorCount(data, h1) > ColorCount(data, h2)
            \/ /\ ColorCount(data, h1) = ColorCount(data, h2)
               /\ FirstSeen(data, h1) < FirstSeen(data, h2)
        Rank(h) == Cardinality({h2 \in keys : Before(h2, h)})
    IN  [i \in 1..Cardinality(keys) |-> CHOOSE h \in keys : Rank(h) = i - 1]

\* variant: the loop does not stop at n accepted colours
RECURSIVE DistinctFrom_Unlimited(_, _, _, _)
DistinctFrom_Unlimited(sorted, i, distinctColors, n) ==
    IF i > Len(sorted) THEN distinctColors
    ELSE IF \E e \in 1..Len(distinctColors) : TooClose(distinctColors[e], sorted[i])
         THEN DistinctFrom_Unlimited(sorted, i + 1, distinctColors, n)
         ELSE DistinctFrom_Unlimited(sorted, i + 1, Append(distinctColors, sorted[i]), n)

\* the filter loop from candidate i on, with distinctColors accepted so far
RECURSIVE DistinctFrom(_, _, _, _)
DistinctFrom(sorted, i, distinctColors, n) ==
    IF i > Len(sorted) \/ Len(distinctColors) >= n THEN distinctColors
    ELSE IF \E e \in 1..Len(distinctColors) : TooClose(distinctColors[e], sorted[i])
         THEN DistinctFrom(sorted, i + 1, distinctColors, n)
         ELSE DistinctFrom(sorted, i + 1, Append(distinctColors, sorted[i]), n)

\* what extractDominantColors resolves with for the 100 x 100 samples data
extractDominantColors(data, n) == DistinctFrom(sortedColors(data), 1, <<>>, n)

-----------------------------------------------------------------------------
(* Inputs of the pipeline calls *)

\* source pixels: opaque black, white and red, a half-transparent orange
\* (#ff8800) and a fully transparent white
SrcPixels ==
    {[r |-> 0, g |-> 0, b |-> 0, a |-> 255],
     [r |-> 255, g |-> 255, b |-> 255, a |-> 255],
     [r |-> 255, g |-> 0, b |-> 0, a |-> 255],
     [r |-> 255, g |-> 136, b |-> 0, a |-> 128],
     [r |-> 255, g |-> 255, b |-> 255, a |-> 0]}

\* images are rows of 1..MaxPixels pixels
Images ==
    UNION {[width : {w}, height : {1}, data : [1..w -> SrcPixels]] : w \in 1..MaxPixels}

\* <<R, G>> of a mask pixel: untouched, painted both ways, and the two
\* samples on either side of the > 10 tests
MaskPixels == {<<0, 0>>, <<255, 255>>, <<11, 10>>, <<10, 11>>}

MaskDims == {d \in (1..MaxPixels) \X (1..MaxPixels) : d[1] * d[2] <= MaxPixels}

Masks ==
    {NoMask} \cup
    UNION {[width : {d[1]}, height : {d[2]}, data : [1..(d[1] * d[2]) -> MaskPixels],
            present : {TRUE}] : d \in MaskDims}

\* const DEFAULT_ADJUSTMENTS
DEFAULT_ADJUSTMENTS ==
    [brightness |-> 0, contrast |-> 0, gamma |-> 10, removeBg |-> FALSE,
     bgRemoveMode |-> "white", customBgColor |-> <<0, 0, 0, 0, 0, 0>>,
     bgThreshold |-> 20]

\* removeBg, bgRemoveMode, bgThreshold
Removals ==
    {<<FALSE, "white", 20>>, <<FALSE, "black", 100>>, <<FALSE, "auto", 0>>} \cup
    {<<TRUE, m, t>> : m \in {"white", "black", "custom", "auto"}, t \in {0, 20, 100}}

\* brightness, contrast, gamma (in tenths); gamma # 1 goes with contrast 0
Tones ==
    {<<0, 0, 10>>, <<100, 0, 10>>, <<-100, 0, 10>>, <<0, 85, 10>>, <<0, -85, 10>>,
     <<100, -85, 10>>, <<0, 0, 5>>}

Adjustment(t, rm) ==
    [brightness |-> t[1], contrast |-> t[2], gamma |-> t[3],
     removeBg |-> rm[1], bgRemoveMode |-> rm[2],
     customBgColor |-> <<15, 15, 5, 0, 0, 0>>, bgThreshold |-> rm[3]]

\* every tone without removal, and three tones with every removal setting
Adjustments ==
    {Adjustment(t, rm) : t \in Tones, rm \in {x \in Removals : ~x[1]}}
    \cup {Adjustment(t, rm) : t \in {<<0, 0, 10>>, <<100, -85, 10>>, <<0, 0, 5>>},
                              rm \in {x \in Removals : x[1]}}

\* the adjustments and masks the separators are called with
SepAdjustments ==
    {DEFAULT_ADJUSTMENTS,
     Adjustment(<<0, 0, 10>>, <<TRUE, "white", 20>>),
     Adjustment(<<-100, 0, 10>>, <<FALSE, "white", 20>>)}

SepMasks(image) ==
    {NoMask} \cup
    {m \in Masks : /\ m.width = image.width /\ m.height = image.height
                   /\ \A p \in 1..Len(m.data) : m.data[p] \in {<<0, 0>>, <<255, 255>>}}

\* spot targets: red, orange (#ff8800) and black, at several thresholds
SpotTargets ==
    {[id |-> "1", name |-> "Red", color |-> <<15, 15, 0, 0, 0, 0>>, threshold |-> 50],
     [id |-> "2", name |-> "Red 100", color |-> <<15, 15, 0, 0, 0, 0>>, threshold |-> 100],
     [id |-> "3", name |-> "Orange", color |-> <<15, 15, 8, 8, 0, 0>>, threshold |-> 50],
     [id |-> "4", name |-> "Orange 0", color |-> <<15, 15, 8, 8, 0, 0>>, threshold |-> 0],
     [id |-> "5", name |-> "Black", color |-> <<0, 0, 0, 0, 0, 0>>, threshold |-> 0]}

SpotConfigs == UNION {[1..n -> SpotTargets] : n \in 0..MaxTargets}

\* every similarity processSpotColors computes on px for these targets is cut
\* off at 0 or has an integer root, and its cube stays within 32 bits
Representable(px, colors) ==
    \A p \in 1..Len(px), t \in 1..Len(colors) :
        px[p].a # 0 =>
            \/ BeyondRange(SpotDistSq(px[p], colors[t]), colors[t].threshold)
            \/ /\ HasIntegerRoot(SpotDistSq(px[p], colors[t]))
               /\ Similarity(px[p], colors[t]).d <= 128

-----------------------------------------------------------------------------
(* Specification of one applyAttributes call *)

\* const DEFAULT_SPOTS (the names in English)
DEFAULT_SPOTS ==
    <<[id |-> "1", name |-> "Bright green", color |-> <<0, 0, 15, 15, 0, 0>>, threshold |-> 50],
      [id |-> "2", name |-> "Orange", color |-> <<15, 15, 8, 8, 0, 0>>, threshold |-> 50],
      [id |-> "3", name |-> "Violet", color |-> <<9, 13, 0, 0, 15, 15>>, threshold |-> 50]>>

NoRun ==
    [pc |-> "idle", src |-> "null", mode |-> "CMYK", spotColors |-> <<>>,
     includeWhiteBase |-> FALSE, adjustments |-> DEFAULT_ADJUSTMENTS,
     mask |-> "null", detached |-> NoMask, res |-> <<>>, lost |-> {}, px |-> <<>>]

\* the component's state after the first render
InitApp ==
    /\ step = 1
    /\ originalImageSrc = "null"
    /\ results = <<>>
    /\ isProcessing = FALSE
    /\ mode = "CMYK"
    /\ spotColors = DEFAULT_SPOTS
    /\ includeWhiteBase = FALSE
    /\ adjustments = DEFAULT_ADJUSTMENTS
    /\ isMaskingMode = FALSE
    /\ maskCanvas = NoMask
    /\ readerPending = {}
    /\ maskInitPending = {}
    /\ run = NoRun
    /\ delivered = NoRun
    /\ edits = 0
    /\ suggestedColors = <<>>
    /\ extractPending = {}

InitPure ==
    /\ InitApp
    /\ img \in Images
    /\ adj = DEFAULT_ADJUSTMENTS
    /\ userMask = NoMask
    /\ spots = <<>>
    /\ call = "none"
    /\ processed = <<>>
    /\ densities = <<>>
    /\ returned = <<>>
    /\ count = 4
    /\ dominant = <<>>

ApplyAttributesCall ==
    /\ call = "none"
    /\ \E a \in Adjustments, m \in Masks :
          /\ adj' = a
          /\ userMask' = m
          /\ processed' = applyAttributes(img, a, m)
    /\ call' = "applyAttributes"
    /\ UNCHANGED <<img, spots, densities, returned, count, dominant, appVars>>

NextAttr == ApplyAttributesCall

SpecAttr == InitPure /\ [][NextAttr]_vars

-----------------------------------------------------------------------------
(* Specification of one separator call *)

ProcessCMYKCall ==
    /\ call = "none"
    /\ \E a \in SepAdjustments, m \in SepMasks(img) :
          LET px == applyAttributes(img, a, m)
          IN  /\ adj' = a
              /\ userMask' = m
              /\ processed' = px
              /\ densities' = CMYKDensities(px)
              /\ returned' = CMYKResults(img.width, img.height, px)
    /\ call' = "processCMYK"
    /\ UNCHANGED <<img, spots, count, dominant, appVars>>

ProcessSpotColorsCall ==
    /\ call = "none"
    /\ \E a \in SepAdjustments, m \in SepMasks(img), sc \in SpotConfigs :
          LET px == applyAttributes(img, a, m)
          IN  /\ Representable(px, sc)
              /\ adj' = a
              /\ userMask' = m
              /\ spots' = sc
              /\ processed' = px
              /\ densities' = SpotDensities(px, sc)
              /\ returned' = SpotResults(img.width, img.height, px, sc)
    /\ call' = "processSpotColors"
    /\ UNCHANGED <<img, count, dominant, appVars>>

ProcessWhiteBaseCall ==
    /\ call = "none"
    /\ \E a \in SepAdjustments, m \in SepMasks(img) :
          LET px == applyAttributes(img, a, m)
          IN  /\ adj' = a
              /\ userMask' = m
              /\ processed' = px
              /\ densities' = <<WhiteBaseDensity(px)>>
              /\ returned' = <<WhiteBaseResult(img.width, img.height, px)>>
    /\ call' = "processWhiteBase"
    /\ UNCHANGED <<img, spots, count, dominant, appVars>>

NextSep == ProcessCMYKCall \/ ProcessSpotColorsCall \/ ProcessWhiteBaseCall

SpecSep == InitPure /\ [][NextSep]_vars

-----------------------------------------------------------------------------
(* Specification of one extractDominantColors call *)

\* samples of the downscaled image: black, red, two dark greys that are 81
\* apart and quantize to colours 42 apart, an orange at the alpha limit, a
\* dark blue that quantizes to #000048, and a sample that is skipped
DomPixels ==
    {[r |-> 0, g |-> 0, b |-> 0, a |-> 255],
     [r |-> 255, g |-> 0, b |-> 0, a |-> 255],
     [r |-> 12, g |-> 12, b |-> 12, a |-> 255],
     [r |-> 59, g |-> 59, b |-> 59, a |-> 255],
     [r |-> 255, g |-> 136, b |-> 0, a |-> 128],
     [r |-> 0, g |-> 0, b |-> 60, a |-> 255],
     [r |-> 255, g |-> 0, b |-> 0, a |-> 127]}

DomImages ==
    UNION {[width : {w}, height : {1}, data : [1..w -> DomPixels]] : w \in 1..MaxSamples}

DomCounts == {1, 2, 4}

InitDom ==
    /\ InitApp
    /\ img \in DomImages
    /\ adj = DEFAULT_ADJUSTMENTS
    /\ userMask = NoMask
    /\ spots = <<>>
    /\ call = "none"
    /\ processed = <<>>
    /\ densities = <<>>
    /\ returned = <<>>
    /\ count = 4
    /\ dominant = <<>>

ExtractDominantColorsCall ==
    /\ call = "none"
    /\ \E n \in DomCounts :
          /\ count' = n
          /\ dominant' = extractDominantColors(img.data, n)
    /\ call' = "extractDominantColors"
    /\ UNCHANGED <<img, adj, userMask, spots, processed, densities, returned, appVars>>

NextDom == ExtractDominantColorsCall

SpecDom == InitDom /\ [][NextDom]_vars

-----------------------------------------------------------------------------
(* The App component *)

\* the files a user uploads: an image, and a file that does not decode
AppFiles == {"fileA", "fileX"}

\* loadImage(src) resolves (img.onload) or rejects (img.onerror)
LoadResolves(src) == src # "fileX"

\* the decoded image behind a data URL
ImageOf(src) ==
    [width |-> 1, height |-> 1, data |-> <<[r |-> 255, g |-> 136, b |-> 0, a |-> 128]>>]

\* the adjustments the sliders are set to
AppAdjustments == {DEFAULT_ADJUSTMENTS, [DEFAULT_ADJUSTMENTS EXCEPT !.removeBg = TRUE]}

\* a canvas element as React mounts it: 300 x 150, transparent; its content
\* is not tracked until the mask effect sizes it to the image
NewCanvas == [width |-> 300, height |-> 150, data |-> <<>>, present |-> TRUE]

BlankCanvas(w, h) ==
    [width |-> w, height |-> h, data |-> [p \in 1..(w * h) |-> <<0, 0>>], present |-> TRUE]

\* ctx.clearRect(0, 0, width, height)
ClearRect(c) ==
    IF c.present THEN [c EXCEPT !.data = [p \in 1..Len(c.data) |-> <<0, 0>>]] ELSE c

\* the pipeline variables are not used by the App specification
PureIdle ==
    /\ img = [width |-> 1, height |-> 1, data |-> <<[r |-> 0, g |-> 0, b |-> 0, a |-> 255]>>]
    /\ adj = DEFAULT_ADJUSTMENTS
    /\ userMask = NoMask
    /\ spots = <<>>
    /\ call = "none"
    /\ processed = <<>>
    /\ densities = <<>>
    /\ returned = <<>>
    /\ count = 4
    /\ dominant = <<>>

\* the render after a state change: the canvas exists exactly at step 2 (a
\* new element each time step 2 is entered), the mask effect runs when step 2
\* is entered or the source changes, and a run keeps the element it holds
Render(oldStep, newStep, oldSrc, newSrc, canvas) ==
    /\ maskCanvas' = IF newStep # 2 THEN NoMask
                     ELSE IF oldStep # 2 THEN NewCanvas
                     ELSE canvas
    /\ maskInitPending' =
          IF newStep = 2 /\ newSrc # "null" /\ (oldStep # 2 \/ oldSrc # newSrc)
          THEN maskInitPending \cup {newSrc}
          ELSE maskInitPending

\* the run's view of its mask element once the element leaves the page
Detach(r, canvas, newStep) ==
    IF r.mask = "live" /\ newStep # 2
    THEN [r EXCEPT !.mask = "detached", !.detached = canvas]
    ELSE r

\* handleFileChange: the file is handed to a FileReader (the user picks the
\* next file once the reader of the previous one has fired)
HandleFileChange(f) ==
    /\ step = 1
    /\ readerPending = {}
    /\ readerPending' = readerPending \cup {f}
    /\ UNCHANGED <<pureVars, sugVars, step, originalImageSrc, results, isProcessing, mode,
                   spotColors, includeWhiteBase, adjustments, isMaskingMode,
                   maskCanvas, maskInitPending, run, delivered, edits>>

\* reader.onload
ReaderOnload(f) ==
    /\ f \in readerPending
    /\ readerPending' = readerPending \ {f}
    /\ originalImageSrc' = f
    /\ adjustments' = DEFAULT_ADJUSTMENTS
    /\ step' = 2
    /\ Render(step, 2, originalImageSrc, f, ClearRect(maskCanvas))
    /\ run' = Detach(run, maskCanvas, 2)
    /\ extractPending' = extractPending \cup {f}
    /\ UNCHANGED <<pureVars, suggestedColors, results, isProcessing, mode, spotColors,
                   includeWhiteBase, isMaskingMode, delivered, edits>>

\* what extractDominantColors(src) resolves with: the colours of the image,
\* or [] from its catch block when the image does not load
Extraction(src) ==
    IF LoadResolves(src) THEN extractDominantColors(ImageOf(src).data, 4) ELSE <<>>

\* extractDominantColors(src).then(colors => setSuggestedColors(colors))
ExtractionDone(src) ==
    /\ src \in extractPending
    /\ extractPending' = extractPending \ {src}
    /\ suggestedColors' = Extraction(src)
    /\ UNCHANGED <<pureVars, step, originalImageSrc, results, isProcessing, mode,
                   spotColors, includeWhiteBase, adjustments, isMaskingMode,
                   maskCanvas, readerPending, maskInitPending, run, delivered, edits>>

\* the mask effect's loadImage(...).then: the current canvas gets the image's
\* size, which clears it; a rejected load changes nothing
MaskInitDone(src) ==
    /\ src \in maskInitPending
    /\ maskInitPending' = maskInitPending \ {src}
    /\ maskCanvas' = IF LoadResolves(src) /\ maskCanvas.present
                     THEN BlankCanvas(ImageOf(src).width, ImageOf(src).height)
                     ELSE maskCanvas
    /\ UNCHANGED <<pureVars, sugVars, step, originalImageSrc, results, isProcessing, mode,
                   spotColors, includeWhiteBase, adjustments, isMaskingMode,
                   readerPending, run, delivered, edits>>

\* setAdjustments from a slider, a checkbox or a mode button
SetAdjustments(a) ==
    /\ step = 2
    /\ edits < MaxEdits
    /\ edits' = edits + 1
    /\ a # adjustments
    /\ adjustments' = a
    /\ UNCHANGED <<pureVars, sugVars, step, originalImageSrc, results, isProcessing, mode,
                   spotColors, includeWhiteBase, isMaskingMode, maskCanvas,
                   readerPending, maskInitPending, run, delivered>>

SetMode(m) ==
    /\ step = 2
    /\ edits < MaxEdits
    /\ edits' = edits + 1
    /\ m # mode
    /\ mode' = m
    /\ UNCHANGED <<pureVars, sugVars, step, originalImageSrc, results, isProcessing,
                   spotColors, includeWhiteBase, adjustments, isMaskingMode,
                   maskCanvas, readerPending, maskInitPending, run, delivered>>

SetIncludeWhiteBase ==
    /\ step = 2
    /\ edits < MaxEdits
    /\ edits' = edits + 1
    /\ includeWhiteBase' = ~includeWhiteBase
    /\ UNCHANGED <<pureVars, sugVars, step, originalImageSrc, results, isProcessing, mode,
                   spotColors, adjustments, isMaskingMode, maskCanvas,
                   readerPending, maskInitPending, run, delivered>>

\* the masking toggle, shown while removeBg is checked
SetIsMaskingMode ==
    /\ step = 2
    /\ adjustments.removeBg
    /\ isMaskingMode' = ~isMaskingMode
    /\ UNCHANGED <<pureVars, sugVars, step, originalImageSrc, results, isProcessing, mode,
                   spotColors, includeWhiteBase, adjustments, maskCanvas,
                   readerPending, maskInitPending, run, delivered, edits>>

\* startDrawing / draw: the brush fills pixel p with opaque red or green
Draw(p, brushType) ==
    /\ step = 2
    /\ isMaskingMode
    /\ maskCanvas.present
    /\ p \in 1..Len(maskCanvas.data)
    /\ maskCanvas' = [maskCanvas EXCEPT
                         !.data[p] = IF brushType = "remove" THEN <<255, 0>> ELSE <<0, 255>>]
    /\ maskCanvas' # maskCanvas
    /\ UNCHANGED <<pureVars, sugVars, step, originalImageSrc, results, isProcessing, mode,
                   spotColors, includeWhiteBase, adjustments, isMaskingMode,
                   readerPending, maskInitPending, run, delivered, edits>>

\* clearMask, a button of the masking tools
ClearMask ==
    /\ step = 2
    /\ isMaskingMode /\ adjustments.removeBg
    /\ maskCanvas.present
    /\ maskCanvas' = ClearRect(maskCanvas)
    /\ maskCanvas' # maskCanvas
    /\ UNCHANGED <<pureVars, sugVars, step, originalImageSrc, results, isProcessing, mode,
                   spotColors, includeWhiteBase, adjustments, isMaskingMode,
                   readerPending, maskInitPending, run, delivered, edits>>

\* `Цвет ${spotColors.length + 1}`, the name of an added target
AddedName(n) == <<"Color 1", "Color 2", "Color 3", "Color 4", "Color 5", "Color 6", "Color 7">>[n]

\* Date.now().toString(), the id of an added target: one per click
AddedId(n) == <<"now 1", "now 2", "now 3", "now 4", "now 5">>[n]

\* handleAddColor with the colour picker's initial newColorHex (#000000)
HandleAddColor ==
    /\ step = 2 /\ mode = "SPOT"
    /\ edits < MaxEdits
    /\ edits' = edits + 1
    /\ spotColors' = Append(spotColors,
                            [id |-> AddedId(edits'), name |-> AddedName(Len(spotColors) + 1),
                             color |-> <<0, 0, 0, 0, 0, 0>>, threshold |-> 50])
    /\ UNCHANGED <<pureVars, sugVars, step, originalImageSrc, results, isProcessing, mode,
                   includeWhiteBase, adjustments, isMaskingMode, maskCanvas,
                   readerPending, maskInitPending, run, delivered>>

\* handleRemoveColor(id): spotColors.filter(c => c.id !== id)
HandleRemoveColor(id) ==
    /\ step = 2 /\ mode = "SPOT"
    /\ edits < MaxEdits
    /\ \E i \in 1..Len(spotColors) : spotColors[i].id = id
    /\ edits' = edits + 1
    /\ spotColors' = SelectSeq(spotColors, LAMBDA c : c.id # id)
    /\ UNCHANGED <<pureVars, sugVars, step, originalImageSrc, results, isProcessing, mode,
                   includeWhiteBase, adjustments, isMaskingMode, maskCanvas,
                   readerPending, maskInitPending, run, delivered>>

\* handleProcess up to setTimeout: the button is disabled while isProcessing
\* and for SPOT without targets; the callback closes over this render's state
HandleProcess ==
    /\ step = 2
    /\ ~isProcessing
    /\ ~(mode = "SPOT" /\ spotColors = <<>>)
    /\ originalImageSrc # "null"
    /\ isProcessing' = TRUE
    /\ run' = [pc |-> "timer", src |-> originalImageSrc, mode |-> mode,
               spotColors |-> spotColors, includeWhiteBase |-> includeWhiteBase,
               adjustments |-> adjustments, mask |-> "null", detached |-> NoMask,
               res |-> <<>>, lost |-> {}, px |-> <<>>]
    /\ UNCHANGED <<pureVars, sugVars, step, originalImageSrc, results, mode, spotColors,
                   includeWhiteBase, adjustments, isMaskingMode, maskCanvas,
                   readerPending, maskInitPending, delivered, edits>>

\* the timeout callback up to the first await: mask = maskCanvasRef.current,
\* then processCMYK / processSpotColors start their loadImage
TimerFires ==
    /\ run.pc = "timer"
    /\ run' = [run EXCEPT !.pc = "color",
                          !.mask = IF maskCanvas.present THEN "live" ELSE "null"]
    /\ UNCHANGED <<pureVars, sugVars, step, originalImageSrc, results, isProcessing, mode,
                   spotColors, includeWhiteBase, adjustments, isMaskingMode,
                   maskCanvas, readerPending, maskInitPending, delivered, edits>>

\* the mask element the run passes on, as it is now
RunMask ==
    IF run.mask = "live" THEN maskCanvas
    ELSE IF run.mask = "detached" THEN run.detached
    ELSE NoMask

\* getContext('2d') returns null when the browser cannot create a context:
\* the stage of one separator call that finds none ("separator" is the
\* getContext of processCMYK, processSpotColors and processWhiteBase itself)
CtxOutcomes == {"none", "applyAttributes", "separator", "createChannelImage"}

\* if (!ctx) return canvas: a canvas of the image's size nothing was drawn on
BlankBuffer(image) ==
    [p \in 1..Len(image.data) |-> [r |-> 0, g |-> 0, b |-> 0, a |-> 0]]

\* if (!ctx) return '': the empty data URL, a raster without pixels
NoImage == <<>>

\* the processed buffer a separator of the run reads
RunBuffer(lost) ==
    IF lost = "applyAttributes" THEN BlankBuffer(ImageOf(run.src))
    ELSE applyAttributes(ImageOf(run.src), run.adjustments, RunMask)

\* the dataUrl of the channels a separator of the run returns
Encoded(res, lost) ==
    IF lost = "createChannelImage"
    THEN [i \in 1..Len(res) |-> [res[i] EXCEPT !.dataUrl = NoImage]]
    ELSE res

\* what processCMYK / processSpotColors return once their image has loaded
ColorChannels(lost) ==
    LET image == ImageOf(run.src)
        px == RunBuffer(lost)
    IN  Encoded(IF run.mode = "CMYK"
                THEN CMYKResults(image.width, image.height, px)
                ELSE SpotResults(image.width, image.height, px, run.spotColors),
                lost)

\* what processWhiteBase returns once its image has loaded
WhiteBase(lost) ==
    LET image == ImageOf(run.src)
    IN  Encoded(<<WhiteBaseResult(image.width, image.height, RunBuffer(lost))>>, lost)[1]

\* the stages of the run that found no context so far
Lost(lost) == IF lost = "none" THEN run.lost ELSE run.lost \cup {lost}

\* setResults(res); setStep(3); finally setIsProcessing(false)
Deliver(res, lost) ==
    /\ results' = res
    /\ step' = 3
    /\ isProcessing' = FALSE
    /\ delivered' = [run EXCEPT !.pc = "done", !.res = res, !.lost = Lost(lost)]
    /\ run' = NoRun
    /\ Render(step, 3, originalImageSrc, originalImageSrc, maskCanvas)

\* variant: without the finally block, a run that throws leaves isProcessing set
Fail_NoFinally ==
    /\ run' = NoRun
    /\ UNCHANGED <<step, originalImageSrc, results, isProcessing, maskCanvas,
                   maskInitPending, delivered>>

\* catch: console.error, alert; finally setIsProcessing(false)
Fail ==
    /\ isProcessing' = FALSE
    /\ run' = NoRun
    /\ UNCHANGED <<step, originalImageSrc, results, maskCanvas, maskInitPending, delivered>>

\* the colour channels' image loads: the channels are computed, and the run
\* either goes on to processWhiteBase or delivers (run.px keeps the buffer
\* the channels were computed from while processWhiteBase is awaited)
ColorLoaded ==
    /\ run.pc = "color"
    /\ LoadResolves(run.src)
    /\ \E lost \in CtxOutcomes \ {"separator"} :
          IF run.includeWhiteBase
          THEN /\ run' = [run EXCEPT !.pc = "white", !.res = ColorChannels(lost),
                                     !.lost = Lost(lost), !.px = RunBuffer(lost)]
               /\ UNCHANGED <<step, originalImageSrc, results, isProcessing, maskCanvas,
                              maskInitPending, delivered>>
          ELSE /\ Deliver(ColorChannels(lost), lost)
               /\ UNCHANGED originalImageSrc
    /\ UNCHANGED <<pureVars, sugVars, mode, spotColors, includeWhiteBase, adjustments,
                   isMaskingMode, readerPending, edits>>

\* variant: the white base is pushed after the mode's channels
WhiteLoaded_Push ==
    /\ run.pc = "white"
    /\ LoadResolves(run.src)
    /\ \E lost \in CtxOutcomes \ {"separator"} :
          Deliver(run.res \o <<WhiteBase(lost)>>, lost)
    /\ UNCHANGED <<pureVars, sugVars, originalImageSrc, mode, spotColors, includeWhiteBase,
                   adjustments, isMaskingMode, readerPending, edits>>

\* the white base's image loads: res.unshift(whiteBase), then deliver
WhiteLoaded ==
    /\ run.pc = "white"
    /\ LoadResolves(run.src)
    /\ \E lost \in CtxOutcomes \ {"separator"} :
          Deliver(<<WhiteBase(lost)>> \o run.res, lost)
    /\ UNCHANGED <<pureVars, sugVars, originalImageSrc, mode, spotColors, includeWhiteBase,
                   adjustments, isMaskingMode, readerPending, edits>>

\* if (!ctx) throw new Error('Context failed') in the separator the run awaits
ContextFailed ==
    /\ run.pc \in {"color", "white"}
    /\ LoadResolves(run.src)
    /\ Fail
    /\ UNCHANGED <<pureVars, sugVars, mode, spotColors, includeWhiteBase, adjustments,
                   isMaskingMode, readerPending, edits>>

\* img.onerror in the run's loadImage
LoadRejected ==
    /\ run.pc \in {"color", "white"}
    /\ ~LoadResolves(run.src)
    /\ Fail
    /\ UNCHANGED <<pureVars, sugVars, mode, spotColors, includeWhiteBase, adjustments,
                   isMaskingMode, readerPending, edits>>

\* handleReset (the Cancel button of step 2, the close button of step 3)
HandleReset ==
    /\ step \in {2, 3}
    /\ step' = 1
    /\ results' = <<>>
    /\ delivered' = NoRun
    /\ originalImageSrc' = "null"
    /\ adjustments' = DEFAULT_ADJUSTMENTS
    /\ isMaskingMode' = FALSE
    /\ Render(step, 1, originalImageSrc, "null", ClearRect(maskCanvas))
    /\ run' = Detach(run, ClearRect(maskCanvas), 1)
    /\ suggestedColors' = <<>>
    /\ UNCHANGED <<pureVars, extractPending, isProcessing, mode, spotColors,
                   includeWhiteBase, readerPending, edits>>

\* the back button of step 3: setStep(2)
BackToConfigure ==
    /\ step = 3
    /\ step' = 2
    /\ Render(3, 2, originalImageSrc, originalImageSrc, maskCanvas)
    /\ UNCHANGED <<pureVars, sugVars, originalImageSrc, results, isProcessing, mode, spotColors,
                   includeWhiteBase, adjustments, isMaskingMode, readerPending, run,
                   delivered, edits>>

Next ==
    \/ \E f \in AppFiles : HandleFileChange(f)
    \/ \E f \in AppFiles : ReaderOnload(f)
    \/ \E src \in AppFiles : MaskInitDone(src)
    \/ \E src \in AppFiles : ExtractionDone(src)
    \/ \E a \in AppAdjustments : SetAdjustments(a)
    \/ \E m \in {"CMYK", "SPOT"} : SetMode(m)
    \/ SetIncludeWhiteBase
    \/ SetIsMaskingMode
    \/ \E p \in 1..MaxPixels, b \in {"remove", "keep"} : Draw(p, b)
    \/ ClearMask
    \/ HandleAddColor
    \/ \E i \in 1..Len(spotColors) : HandleRemoveColor(spotColors[i].id)
    \/ HandleProcess
    \/ TimerFires
    \/ ColorLoaded
    \/ WhiteLoaded
    \/ LoadRejected
    \/ ContextFailed
    \/ HandleReset
    \/ BackToConfigure

Init == InitApp /\ PureIdle

Spec == Init /\ [][Next]_vars

\* the steps of a run in flight: the 100 ms timer fires, and each image load
\* resolves or rejects
RunStep == TimerFires \/ ColorLoaded \/ WhiteLoaded \/ LoadRejected \/ ContextFailed

\* the App component with a timer that fires and loads that settle, for
\* sessions of at most MaxLiveEdits configuration edits
NextLive == Next /\ edits' <= MaxLiveEdits

SpecLive == Init /\ [][NextLive]_vars /\ WF_vars(RunStep)

-----------------------------------------------------------------------------
(* Properties of applyAttributes, checked under SpecAttr *)

\* the mask passed to the call has the geometry of the image
MaskMatches == userMask.present /\ userMask.width = img.width /\ userMask.height = img.height

Pixels == 1..Len(img.data)

\* C1: wherever a size-matching mask has Red > 10 the output alpha is 0,
\* whatever the mask's Green and whatever the removal settings
C1_EraseWins ==
    (call = "applyAttributes" /\ MaskMatches) =>
        \A p \in Pixels : userMask.data[p][1] > 10 => processed[p].a = 0

\* a visible pixel marked both erase and keep, erased although no automatic
\* rule is switched on
C1_Witness ==
    /\ call = "applyAttributes" /\ MaskMatches /\ ~adj.removeBg
    /\ \E p \in Pixels :
          /\ userMask.data[p][1] > 10 /\ userMask.data[p][2] > 10
          /\ img.data[p].a > 0 /\ processed[p].a = 0

\* C2: the alpha written for a pixel is the source alpha or 0, so it never
\* exceeds the source alpha
C2_AlphaNeverIncreases ==
    call = "applyAttributes" =>
        \A p \in Pixels :
            /\ processed[p].a \in {img.data[p].a, 0}
            /\ processed[p].a <= img.data[p].a

\* a half-transparent pixel kept by the mask next to a visible pixel that
\* was cleared
C2_Witness ==
    /\ call = "applyAttributes" /\ MaskMatches
    /\ \E p, q \in Pixels :
          /\ userMask.data[p][2] > 10
          /\ img.data[p].a = 128 /\ processed[p].a = 128
          /\ img.data[q].a > 0 /\ processed[q].a = 0

C4_MaskGeometryFallback ==
    (call = "applyAttributes" /\ userMask.present /\ ~MaskMatches) =>
        processed = applyAttributes(img, adj, NoMask)

\* a 1x2 mask on a 2x1 image: as many pixels, another geometry, and an erase
\* mark over a pixel that stays visible
C4_Witness ==
    /\ call = "applyAttributes" /\ userMask.present
    /\ userMask.width # img.width /\ userMask.height # img.height
    /\ Len(userMask.data) = Len(img.data)
    /\ \E p \in Pixels : userMask.data[p][1] > 10 /\ processed[p].a > 0

\* C5: brightness 0, contrast 0, gamma 1, removeBg false and no mask return
\* every sample of the input unchanged
C5_IdentityAdjustment ==
    (/\ call = "applyAttributes"
     /\ adj.brightness = 0 /\ adj.contrast = 0 /\ adj.gamma = 10
     /\ ~adj.removeBg /\ ~userMask.present) =>
        processed = img.data

\* the identity settings applied to an image with a mid-range, a
\* half-transparent and a white sample
C5_Witness ==
    /\ call = "applyAttributes"
    /\ adj.brightness = 0 /\ adj.contrast = 0 /\ adj.gamma = 10
    /\ ~adj.removeBg /\ ~userMask.present
    /\ \E p, q \in Pixels :
          /\ img.data[p] = [r |-> 255, g |-> 136, b |-> 0, a |-> 128]
          /\ img.data[q] = [r |-> 255, g |-> 255, b |-> 255, a |-> 255]
    /\ processed = img.data

-----------------------------------------------------------------------------
(* Properties of the separators, checked under SpecSep *)

Opaque(px, r, g, b) == px = [r |-> r, g |-> g, b |-> b, a |-> 255]

\* C6: an opaque black pixel gets C = M = Y = 0 and K = 255, an opaque white
\* pixel gets C = M = Y = K = 0
C6_CMYKExtremes ==
    call = "processCMYK" =>
        \A p \in 1..Len(processed) :
            /\ Opaque(processed[p], 0, 0, 0) =>
                  <<densities[1][p], densities[2][p], densities[3][p], densities[4][p]>>
                      = <<0, 0, 0, 255>>
            /\ Opaque(processed[p], 255, 255, 255) =>
                  <<densities[1][p], densities[2][p], densities[3][p], densities[4][p]>>
                      = <<0, 0, 0, 0>>

\* a processed buffer holding an opaque black and an opaque white pixel
C6_Witness ==
    /\ call = "processCMYK"
    /\ \E p, q \in 1..Len(processed) :
          Opaque(processed[p], 0, 0, 0) /\ Opaque(processed[q], 255, 255, 255)

\* C7: for a pixel with alpha > 0 and mx = max(R, G, B), the Key density is
\* (255 - mx) * alpha / 255 and, for mx > 0, the C, M, Y densities are
\* (mx - channel) * alpha / mx, each stored as an 8-bit sample; this is
\* value * 255 * (alpha / 255) for k = 1 - mx/255 and (1 - ch/255 - k)/(1 - k);
\* opaque pure red gets <<0, 255, 255, 0>>
C7_CMYKFormula ==
    call = "processCMYK" =>
        \A p \in 1..Len(processed) :
            LET px == processed[p]
                mx == Max3(px.r, px.g, px.b)
            IN  /\ px.a > 0 =>
                      /\ densities[4][p] = ToUint8Clamped(Rat((255 - mx) * px.a, 255))
                      /\ mx > 0 =>
                            /\ densities[1][p] = ToUint8Clamped(Rat((mx - px.r) * px.a, mx))
                            /\ densities[2][p] = ToUint8Clamped(Rat((mx - px.g) * px.a, mx))
                            /\ densities[3][p] = ToUint8Clamped(Rat((mx - px.b) * px.a, mx))
                /\ Opaque(px, 255, 0, 0) =>
                      <<densities[1][p], densities[2][p], densities[3][p], densities[4][p]>>
                          = <<0, 255, 255, 0>>

\* an opaque red pixel next to a half-transparent pixel with three different
\* channels and a non-zero key
C7_Witness ==
    /\ call = "processCMYK"
    /\ \E p, q \in 1..Len(processed) :
          /\ Opaque(processed[p], 255, 0, 0)
          /\ processed[q].a = 128
          /\ densities[4][q] = 0 /\ densities[2][q] = 60 /\ densities[3][q] = 128

\* C8: a pixel with alpha > 0 whose RGB is the target's RGB has the pixel's
\* alpha as density in that target's channel, at every threshold
C8_SpotIdentity ==
    call = "processSpotColors" =>
        \A t \in 1..Len(spots), p \in 1..Len(processed) :
            (processed[p].a > 0
             /\ <<processed[p].r, processed[p].g, processed[p].b>> = TargetRGB(spots[t]))
                => densities[t][p] = processed[p].a

\* a half-transparent pixel of a target's colour, with the target at
\* threshold 50 and at threshold 0
C8_Witness ==
    /\ call = "processSpotColors"
    /\ \E t, u \in 1..Len(spots), p \in 1..Len(processed) :
          /\ processed[p].a = 128
          /\ <<processed[p].r, processed[p].g, processed[p].b>> = TargetRGB(spots[t])
          /\ spots[t].color = spots[u].color
          /\ spots[t].threshold = 50 /\ spots[u].threshold = 0
          /\ densities[t][p] = 128 /\ densities[u][p] = 128

\* C9 as stated: for one pixel and one target colour, the density at a
\* higher threshold is at least the density at a lower threshold
C9_ThresholdInclusive ==
    call = "processSpotColors" =>
        \A t, u \in 1..Len(spots), p \in 1..Len(processed) :
            (spots[t].color = spots[u].color /\ spots[t].threshold <= spots[u].threshold)
                => densities[t][p] <= densities[u][p]

\* C9 amended: for one pixel and one target colour, the density at a higher
\* threshold is at most the density at a lower threshold
C9_ThresholdNarrows ==
    call = "processSpotColors" =>
        \A t, u \in 1..Len(spots), p \in 1..Len(processed) :
            (spots[t].color = spots[u].color /\ spots[t].threshold <= spots[u].threshold)
                => densities[u][p] <= densities[t][p]

\* one colour at two thresholds, and a pixel whose density drops at the
\* higher one
C9_Witness ==
    /\ call = "processSpotColors"
    /\ \E t, u \in 1..Len(spots), p \in 1..Len(processed) :
          /\ spots[t].color = spots[u].color
          /\ spots[t].threshold < spots[u].threshold
          /\ densities[u][p] < densities[t][p]

-----------------------------------------------------------------------------
(* Properties of the App component, checked under Spec *)

CMYKNames == <<"Cyan", "Magenta", "Yellow", "Key (Black)">>

\* the channel names a run started with configuration c has to deliver
ExpectedNames(c) ==
    LET channels == IF c.mode = "CMYK" THEN CMYKNames
                    ELSE [t \in 1..Len(c.spotColors) |-> c.spotColors[t].name]
    IN  IF c.includeWhiteBase THEN <<"White Underbase">> \o channels ELSE channels

\* C10: the results of a successful run are, in order, the White Underbase
\* exactly when the run was started with includeWhiteBase (then first), and
\* after it Cyan, Magenta, Yellow, Key (Black) for a CMYK run or one channel
\* per target of the run's configuration, in configuration order, with the
\* target's name and colour, for a SPOT run
C10_ResultShape ==
    results # <<>> =>
        /\ delivered.pc = "done"
        /\ [i \in 1..Len(results) |-> results[i].name] = ExpectedNames(delivered)
        /\ LET off == IF delivered.includeWhiteBase THEN 1 ELSE 0
           IN  /\ \A i \in 1..Len(results) :
                     results[i].name = "White Underbase" <=> (off = 1 /\ i = 1)
               /\ delivered.mode = "SPOT" =>
                     /\ Len(results) = off + Len(delivered.spotColors)
                     /\ \A t \in 1..Len(delivered.spotColors) :
                           results[off + t].colorHex = delivered.spotColors[t].color
               /\ delivered.mode = "CMYK" => Len(results) = off + 4

\* a SPOT run with the white base has delivered its four results
C10_Witness ==
    /\ step = 3
    /\ Len(results) = 4
    /\ delivered.mode = "SPOT" /\ delivered.includeWhiteBase
    /\ results[1].name = "White Underbase"
    /\ results[2].name = "Bright green"
    /\ results[4].name = "Violet"

-----------------------------------------------------------------------------
(* Further properties of the separators, checked under SpecSep *)

SeparatorCalled == call \in {"processCMYK", "processSpotColors", "processWhiteBase"}

\* C11: in every density buffer a separator fills, a pixel whose alpha in
\* the processed buffer is 0 has density 0
C11_NoInkWhereTransparent ==
    SeparatorCalled =>
        \A c \in 1..Len(densities), p \in 1..Len(processed) :
            processed[p].a = 0 => densities[c][p] = 0

\* the white underbase of an image with an erased black pixel, whose
\* inverted luminance would be 255, next to an opaque pixel
C11_Witness ==
    /\ call = "processWhiteBase"
    /\ \E p, q \in 1..Len(processed) :
          /\ processed[p] = [r |-> 0, g |-> 0, b |-> 0, a |-> 0]
          /\ processed[q].a = 255
          /\ densities[1][p] = 0

\* the 8-bit sample stored for 255 - (0.299 R + 0.587 G + 0.114 B)
InvertedLuma(px) ==
    ToUint8Clamped(Rat(255000 - (299 * px.r + 587 * px.g + 114 * px.b), 1000))

\* C12: when some pixel of the processed buffer has alpha < 250 the white
\* underbase density of every pixel is that pixel's alpha, and otherwise
\* the density of every pixel is its inverted luminance
C12_WhiteBaseDocumentLevel ==
    call = "processWhiteBase" =>
        IF \E p \in 1..Len(processed) : processed[p].a < 250
        THEN \A p \in 1..Len(processed) : densities[1][p] = processed[p].a
        ELSE \A p \in 1..Len(processed) : densities[1][p] = InvertedLuma(processed[p])

\* a half-transparent pixel makes an opaque red pixel, whose inverted
\* luminance is 179, get its alpha 255
C12_Witness ==
    /\ call = "processWhiteBase"
    /\ \E p, q \in 1..Len(processed) :
          /\ processed[p].a = 128
          /\ Opaque(processed[q], 255, 0, 0)
          /\ InvertedLuma(processed[q]) = 179
          /\ densities[1][q] = 255

\* C13: the raster of every returned channel has R = G = B = 0 and the
\* density as alpha at every pixel, whatever the channel's colorHex
C13_EncoderBlackInk ==
    SeparatorCalled =>
        /\ Len(returned) = Len(densities)
        /\ \A c \in 1..Len(returned) :
              returned[c].dataUrl =
                  [p \in 1..Len(densities[c]) |->
                      [r |-> 0, g |-> 0, b |-> 0, a |-> densities[c][p]]]

\* an orange channel (#ff8800) holding a half-covered pixel
C13_Witness ==
    /\ call = "processSpotColors"
    /\ \E c \in 1..Len(returned), p \in 1..Len(processed) :
          /\ returned[c].colorHex = <<15, 15, 8, 8, 0, 0>>
          /\ densities[c][p] = 128
          /\ returned[c].dataUrl[p] = [r |-> 0, g |-> 0, b |-> 0, a |-> 128]

-----------------------------------------------------------------------------
(* Properties of extractDominantColors, checked under SpecDom *)

\* the squared distance of two samples' own colours
RawDistSq(p1, p2) ==
    (p1.r - p2.r) * (p1.r - p2.r) + (p1.g - p2.g) * (p1.g - p2.g)
        + (p1.b - p2.b) * (p1.b - p2.b)

\* the number of samples of the image that are the pixel x
Area(x) == Cardinality({p \in 1..Len(img.data) : img.data[p] = x})

\* the image is made of the opaque colours x (the larger part) and y, each
\* covering more than a quarter of the samples
TwoSolidColours(x, y) ==
    /\ x.a = 255 /\ y.a = 255
    /\ <<x.r, x.g, x.b>> # <<y.r, y.g, y.b>>
    /\ \A p \in 1..Len(img.data) : img.data[p] \in {x, y}
    /\ Area(x) > Area(y)
    /\ 4 * Area(y) > Len(img.data)

\* C14 as stated: an image of two solid colours more than 60 apart, each on
\* more than a quarter of the samples, gives both colours (as quantized by
\* the extractor), the one of the larger part first, when count >= 2
C14_TwoHalves ==
    (call = "extractDominantColors" /\ count >= 2) =>
        \A x, y \in DomPixels :
            (TwoSolidColours(x, y) /\ RawDistSq(x, y) > minDistance * minDistance)
                => dominant = <<QuantizedHex(x), QuantizedHex(y)>>

\* C14 amended: an image of two solid colours whose quantized colours are at
\* least 60 apart, each on more than a quarter of the samples, gives both
\* quantized colours, the one of the larger part first, when count >= 2
C14_TwoHalvesQuantized ==
    (call = "extractDominantColors" /\ count >= 2) =>
        \A x, y \in DomPixels :
            (/\ TwoSolidColours(x, y)
             /\ ColorDistSq(QuantizedHex(x), QuantizedHex(y)) >= minDistance * minDistance)
                => dominant = <<QuantizedHex(x), QuantizedHex(y)>>

\* the smaller part is scanned first and one of the two colours is changed
\* by the quantization, and both are returned with the larger part first
C14_Witness ==
    /\ call = "extractDominantColors" /\ count >= 2
    /\ \E x, y \in DomPixels :
          /\ TwoSolidColours(x, y)
          /\ img.data[1] = y
          /\ QuantizedHex(x) # ToHex(x.r, x.g, x.b)
          /\ Len(dominant) = 2
          /\ dominant[1] = QuantizedHex(x) /\ dominant[2] = QuantizedHex(y)

\* C15: any two entries of the returned sequence are at least 60 apart
C15_MinimumDistinctness ==
    call = "extractDominantColors" =>
        \A i, j \in 1..Len(dominant) :
            i # j => ColorDistSq(dominant[i], dominant[j]) >= minDistance * minDistance

\* a call that returned two colours and left out a candidate, with room
\* left, because it was closer than 60 to an accepted colour
C15_Witness ==
    /\ call = "extractDominantColors"
    /\ Len(dominant) = 2 /\ count > 2
    /\ Len(sortedColors(img.data)) = 3
    /\ \E i \in 1..3 :
          TooClose(dominant[1], sortedColors(img.data)[i]) /\ i > 1

-----------------------------------------------------------------------------
(* Further properties of the App component, checked under Spec *)

\* a handleProcess invocation ends in this step
RunEnds == run.pc \in {"color", "white"} /\ run'.pc = "idle"

\* this step stores the complete results of the run: no stage lost its
\* context, every expected channel is there, each with a raster of the
\* image's size
CompleteDelivery ==
    /\ step' = 3
    /\ delivered'.lost = {}
    /\ [i \in 1..Len(results') |-> results'[i].name] = ExpectedNames(run)
    /\ \A i \in 1..Len(results') :
          Len(results'[i].dataUrl) = ImageOf(run.src).width * ImageOf(run.src).height

\* C16: a handleProcess invocation ends either by storing the complete
\* results of a run in which no stage failed, or with results and step
\* left as they were
C16_NoPartialResults ==
    [][RunEnds => (CompleteDelivery \/ UNCHANGED <<results, step>>)]_vars

-----------------------------------------------------------------------------
(* Further properties of applyAttributes, checked under SpecAttr *)

\* C17: with removeBg, mode Auto and no mask, the pixel at (0,0) comes out
\* with alpha 0 at every bgThreshold, brightness, contrast and gamma (the
\* target being the adjusted colour of that pixel)
C17_AutoErasesOrigin ==
    (/\ call = "applyAttributes"
     /\ adj.removeBg /\ adj.bgRemoveMode = "auto" /\ ~userMask.present) =>
        processed[1].a = 0

\* the value the contrast step gives to x
Contrasted(x, a) == RAdd(RMul(ContrastFactor(a), RSub(x, Rat(128, 1))), Rat(128, 1))

\* clamp(gamma(clamp(contrast(clamp(c + brightness))))), as an 8-bit sample
PerStageClamped(c, a) ==
    LET bright == Clamp255(Rat(c + a.brightness, 1))
        contr == Clamp255(Contrasted(bright, a))
        gam == IF a.gamma # 10 THEN GammaCurve(contr, a.gamma) ELSE contr
    IN  ToUint8Clamped(Clamp255(gam))

\* clamp(gamma(clamp(contrast(c + brightness)))), the gamma step and its
\* clamp of the contrast result being left out at gamma 1, as an 8-bit sample
ClampedBeforeGamma(c, a) ==
    LET contr == Contrasted(Rat(c + a.brightness, 1), a)
        gam == IF a.gamma # 10 THEN GammaCurve(Clamp255(contr), a.gamma) ELSE contr
    IN  ToUint8Clamped(Clamp255(gam))

NoOverride(p) ==
    ~MaskMatches \/ (userMask.data[p][1] <= 10 /\ userMask.data[p][2] <= 10)

\* the adjusted colour of pixel p, before it is stored
AdjustedColour(p) ==
    <<AdjustSample(img.data[p].r, adj), AdjustSample(img.data[p].g, adj),
      AdjustSample(img.data[p].b, adj)>>

\* 0.299 R + 0.587 G + 0.114 B > 255 - 2.5 * threshold for the colour c, in
\* thousandths over the common denominator of R, G and B
LumaExceeds(c, threshold) ==
    LET den == Lcm(c[1].d, Lcm(c[2].d, c[3].d))
        R == c[1].n * (den \div c[1].d)
        G == c[2].n * (den \div c[2].d)
        B == c[3].n * (den \div c[3].d)
    IN  299 * R + 587 * G + 114 * B > (255000 - 2500 * threshold) * den

\* C19: with removeBg, mode White and no mask override at a pixel, the
\* output alpha is 0 when the luma of the adjusted colour is above
\* 255 - 2.5 * bgThreshold and the source alpha otherwise; at bgThreshold 0
\* every such pixel keeps its alpha
C19_WhiteLumaRule ==
    (call = "applyAttributes" /\ adj.removeBg /\ adj.bgRemoveMode = "white") =>
        \A p \in Pixels :
            NoOverride(p) =>
                /\ processed[p].a = IF LumaExceeds(AdjustedColour(p), adj.bgThreshold)
                                    THEN 0 ELSE img.data[p].a
                /\ adj.bgThreshold = 0 => processed[p].a = img.data[p].a

\* under an untouched mask a white pixel is erased and a darker visible
\* pixel is kept, at a bgThreshold above 0
C19_Witness ==
    /\ call = "applyAttributes" /\ adj.removeBg /\ adj.bgRemoveMode = "white"
    /\ MaskMatches /\ adj.bgThreshold > 0
    /\ \E p, q \in Pixels :
          /\ NoOverride(p) /\ NoOverride(q)
          /\ img.data[p].a = 255 /\ processed[p].a = 0
          /\ img.data[q].a > 0 /\ processed[q].a = img.data[q].a

\* the target of the distance test: black, the parsed customBgColor, or for
\* Auto the colour the source has at (0,0)
DistanceTarget ==
    IF adj.bgRemoveMode = "black" THEN <<0, 0, 0>>
    ELSE IF adj.bgRemoveMode = "custom"
         THEN <<16 * adj.customBgColor[1] + adj.customBgColor[2],
                16 * adj.customBgColor[3] + adj.customBgColor[4],
                16 * adj.customBgColor[5] + adj.customBgColor[6]>>
    ELSE <<img.data[1].r, img.data[1].g, img.data[1].b>>

\* the squared distance of the colour c to the target t is at most
\* ((threshold / 100) * 442)^2: with every term scaled by the common
\* denominator den, the sum of the squares is an integer, so it is compared
\* with the integer part of (4.42 * threshold * den)^2
SquaredDistanceWithin(c, t, threshold) ==
    LET den == Lcm(c[1].d, Lcm(c[2].d, c[3].d))
        D(k) == Abs(c[k].n * (den \div c[k].d) - t[k] * den)
        sum == WAdd(WAdd(WSquare(D(1)), WSquare(D(2))), WSquare(D(3)))
        \* 4.42 * threshold * den = whole + part / 50
        whole == (221 * threshold * den) \div 50
        part == (221 * threshold * den) % 50
        \* (whole + part/50)^2 = whole^2 + (100 * whole * part + part^2) / 2500
        extra == (whole * part) \div 25
                   + (((whole * part) % 25) * 100 + part * part) \div 2500
    IN  WLeq(sum, WAdd(WSquare(whole), WNat(extra)))

\* C20: with removeBg, mode Black, Custom or Auto and no mask override at a
\* pixel, the output alpha is 0 when the squared distance of the adjusted
\* colour to the target is at most ((bgThreshold / 100) * 442)^2 and the
\* source alpha otherwise; at bgThreshold 0 the pixels erased are those
\* whose adjusted colour is the target
C20_DistanceRule ==
    (/\ call = "applyAttributes" /\ adj.removeBg
     /\ adj.bgRemoveMode \in {"black", "custom", "auto"}) =>
        \A p \in Pixels :
            NoOverride(p) =>
                /\ processed[p].a =
                      IF SquaredDistanceWithin(AdjustedColour(p), DistanceTarget,
                                               adj.bgThreshold)
                      THEN 0 ELSE img.data[p].a
                /\ (adj.bgThreshold = 0 /\ img.data[p].a > 0) =>
                      (processed[p].a = 0 <=>
                          \A k \in 1..3 : AdjustedColour(p)[k] = Rat(DistanceTarget[k], 1))

\* at bgThreshold 0 in mode Black a black pixel is erased and another
\* visible pixel is kept
C20_Witness ==
    /\ call = "applyAttributes" /\ adj.removeBg /\ adj.bgRemoveMode = "black"
    /\ adj.bgThreshold = 0
    /\ \E p, q \in Pixels :
          /\ NoOverride(p) /\ NoOverride(q)
          /\ img.data[p].a = 255 /\ processed[p] = [r |-> 0, g |-> 0, b |-> 0, a |-> 0]
          /\ img.data[q].a > 0 /\ processed[q].a = img.data[q].a

\* the adjustments with the brightness, contrast and gamma of a and no
\* background removal
ToneOnly(a) ==
    [DEFAULT_ADJUSTMENTS EXCEPT !.brightness = a.brightness,
                                !.contrast = a.contrast,
                                !.gamma = a.gamma]

\* the colour samples of a pixel
Colour(px) == <<px.r, px.g, px.b>>

\* C21: the R, G and B samples applyAttributes writes are those it writes
\* for the same brightness, contrast and gamma with removal off and no
\* mask, whatever removeBg, bgRemoveMode, customBgColor, bgThreshold and
\* the mask are
C21_ColourUntouched ==
    call = "applyAttributes" =>
        \A p \in Pixels :
            Colour(processed[p]) = Colour(applyAttributes(img, ToneOnly(adj), NoMask)[p])

\* a visible coloured pixel is erased by the automatic removal, another by
\* the mask, and both keep their colour
C21_Witness ==
    /\ call = "applyAttributes" /\ adj.removeBg /\ MaskMatches
    /\ \E p, q \in Pixels :
          /\ NoOverride(p) /\ img.data[p].a = 255 /\ processed[p].a = 0
          /\ processed[p].r > 0
          /\ userMask.data[q][1] > 10 /\ img.data[q].a = 255 /\ processed[q].a = 0
          /\ processed[q].r > 0

\* the targets sc and sd have the same colour and threshold
SameTarget(sc, sd) == sc.color = sd.color /\ sc.threshold = sd.threshold

\* C22: the density buffer of a target is the one processSpotColors
\* produces for that target's colour and threshold on the same processed
\* image at any position of any other list of targets
C22_SpotTargetsIndependent ==
    call = "processSpotColors" =>
        \A t \in 1..Len(spots) :
            \A other \in SpotConfigs :
                Representable(processed, other) =>
                    \A u \in 1..Len(other) :
                        SameTarget(other[u], spots[t]) =>
                            SpotDensities(processed, other)[u] = densities[t]

\* a pixel has nonzero density in the channels of two targets of
\* different colours
C22_Witness ==
    /\ call = "processSpotColors" /\ Len(spots) = 2
    /\ spots[1].color # spots[2].color
    /\ \E p \in 1..Len(processed) :
          densities[1][p] > 0 /\ densities[2][p] > 0

\* how many samples with alpha >= 128 quantise to the colour hex
Frequency(hex) ==
    Cardinality({p \in 1..Len(img.data) :
                    img.data[p].a >= 128 /\ QuantizedHex(img.data[p]) = hex})

\* C23: extractDominantColors returns at most count colours, in
\* non-increasing order of their frequency among the quantised colours of
\* the samples with alpha >= 128
C23_AtMostCountByFrequency ==
    call = "extractDominantColors" =>
        /\ Len(dominant) <= count
        /\ \A i, j \in 1..Len(dominant) :
              i < j => Frequency(dominant[i]) >= Frequency(dominant[j])

\* a call with count 1 returned the most frequent colour and left out a
\* less frequent one that is far enough from it
C23_Witness ==
    /\ call = "extractDominantColors" /\ count = 1 /\ Len(dominant) = 1
    /\ \E p \in 1..Len(img.data) :
          /\ img.data[p].a >= 128
          /\ ~TooClose(dominant[1], QuantizedHex(img.data[p]))
          /\ Frequency(QuantizedHex(img.data[p])) < Frequency(dominant[1])

-----------------------------------------------------------------------------
(* Properties of a run in flight, checked under Spec *)

\* a run that found a context at every stage delivers its White Underbase
WhiteBaseDelivered ==
    /\ run.pc = "white" /\ run.lost = {}
    /\ step' = 3 /\ delivered'.pc = "done" /\ delivered'.lost = {}

\* C24: the White Underbase a run delivers is the one derived from the
\* processed buffer its colour channels were derived from
C24_OneProcessedBuffer ==
    [][WhiteBaseDelivered =>
          results'[1] = WhiteBaseResult(ImageOf(run.src).width, ImageOf(run.src).height,
                                        run.px)]_vars

\* the app as handleReset leaves it: step 1 without an image
AfterReset == step = 1 /\ originalImageSrc = "null" /\ results = <<>>

\* C25: from the state handleReset leaves, the completion of a run started
\* before it stores no results and does not move to step 3: the app stays
\* at step 1 with empty results and no image until a chosen file is loaded
C25_ResetNotUndone ==
    [][AfterReset =>
          \/ step' = 1 /\ originalImageSrc' = "null" /\ results' = <<>>
          \/ step' = 2 /\ originalImageSrc' \in AppFiles /\ results' = <<>>]_vars

\* the try block of a run completes: setResults(res), setStep(3)
RunSucceeds ==
    /\ run.pc \in {"color", "white"} /\ LoadResolves(run.src)
    /\ delivered'.pc = "done" /\ results' = delivered'.res /\ step' = 3

\* results get new channels, or the app enters step 3
ResultsShown == (results' # results /\ results' # <<>>) \/ (step' = 3 /\ step # 3)

\* C26: a started run eventually sets isProcessing back to false, and only
\* a run that succeeded replaces results and moves to step 3
C26_RunTerminates ==
    /\ isProcessing ~> ~isProcessing
    /\ [][ResultsShown => RunSucceeds]_vars
    /\ [][(run.pc # "idle" /\ run'.pc = "idle" /\ ~RunSucceeds) =>
             (~isProcessing' /\ UNCHANGED <<results, step>>)]_vars

\* a run is in flight whose image load is going to reject
C26_Witness ==
    /\ isProcessing /\ run.pc = "color" /\ ~LoadResolves(run.src)
    /\ step = 2 /\ results = <<>>

\* C27: suggestedColors, when not empty, is what extractDominantColors
\* resolves with for the image that is loaded now
C27_SuggestionsCurrent ==
    suggestedColors # <<>> =>
        originalImageSrc # "null" /\ suggestedColors = Extraction(originalImageSrc)

\* C28: every CMYK density and every spot-colour density of a pixel is at
\* least 0 and at most the alpha of that pixel in the processed image
C28_InkWithinAlpha ==
    call \in {"processCMYK", "processSpotColors"} =>
        \A ch \in 1..Len(densities) :
            \A p \in 1..Len(processed) :
                0 <= densities[ch][p] /\ densities[ch][p] <= processed[p].a

\* a half-transparent pixel carries as much ink of a spot colour as its
\* alpha allows
C28_Witness ==
    /\ call = "processSpotColors"
    /\ \E t \in 1..Len(densities) :
          \E p \in 1..Len(processed) :
              /\ processed[p].a > 0 /\ processed[p].a < 255
              /\ densities[t][p] = processed[p].a

====
